---- MODULE Spec2Model ----
(***************************************************************************)
(* ZasDict: collator, index builder, search worker and the main-window     *)
(* handlers that add, edit and delete entries.                             *)
(*                                                                         *)
(* Strings are sequences of one-character strings.  TLA+ source is ASCII,  *)
(* so the non-ASCII literals of the program are written as follows:        *)
(*   full-width "（" is "((" and full-width "）" is "))" (one character),    *)
(*   relation kinds  類義語 synonym, 対義語 antonym, 上位語 hypernym,         *)
(*                   下位語 hyponym, 関連 related, 参照 reference,            *)
(*                   省略 abbreviation, 同意 agreement,                      *)
(*                   派生 derived (a kind typed by the user),                *)
(*   content titles  語法 usage, 語源 etymology,                             *)
(*   search modes    部分 partial, 前方 prefix, 後方 suffix, 完全 exact,      *)
(*   search scopes   見出し語・訳語 headword, 全文 fulltext.                  *)
(***************************************************************************)
EXTENDS Integers, Sequences, FiniteSets, TLC

VARIABLES
    heap,            \* entry dicts by object identity (Python references)
    words,           \* dictionary_data["words"]: list of references
    search_index,    \* DictionaryApp.search_index (with the build pass that made it)
    id_map,          \* DictionaryApp.id_map
    builds,          \* number of build_search_index passes so far
    job_counter,     \* DictionaryApp.job_counter
    latest_job_id,   \* DictionaryApp.latest_job_id
    search_text,     \* search_input.text()
    search_mode,     \* search_mode.currentText()
    search_scope,    \* search_scope.currentText()
    result_list,     \* result_list widget rows
    result_entries,  \* DictionaryApp.result_entries
    mpc,             \* where the GUI thread is
    dialog,          \* the open editor / pending delete
    worker_index,    \* SearchWorker.index
    worker_id_map,   \* SearchWorker.id_map
    queue,           \* queued run_search invocations
    wpc,             \* where the worker thread is
    wjob,            \* the job the worker is running
    wmatched,        \* ids matched by the running job, and the pass it read
    completions,     \* queued finished(job_id, results) signals
    delivered,       \* the last finished signal delivered, and whether it was shown
    args,            \* inputs of a function under test
    ret              \* its result

vars == <<heap, words, search_index, id_map, builds, job_counter,
          latest_job_id, search_text, search_mode, search_scope, result_list,
          result_entries, mpc, dialog, worker_index, worker_id_map, queue,
          wpc, wjob, wmatched, completions, delivered, args, ret>>

appVars == <<heap, words, search_index, id_map, builds, job_counter,
             latest_job_id, search_text, search_mode, search_scope,
             result_list, result_entries, mpc, dialog, worker_index,
             worker_id_map, queue, wpc, wjob, wmatched, completions, delivered>>

----------------------------------------------------------------------------
(* Generic helpers *)

Min(a, b) == IF a < b THEN a ELSE b

MinOf(S) == CHOOSE x \in S : \A y \in S : x <= y

MaxOf(S) == CHOOSE x \in S : \A y \in S : x >= y

Sign(x) == IF x < 0 THEN -1 ELSE IF x > 0 THEN 1 ELSE 0

Range(s) == {s[i] : i \in 1..Len(s)}

StrsOver(chars, n) == UNION {[1..k -> chars] : k \in 0..n}

SeqsOver(S, n) == UNION {[1..k -> S] : k \in 0..n}

RECURSIVE FilterSeq(_, _)
FilterSeq(s, keep) ==
    IF s = <<>> THEN <<>>
    ELSE IF Head(s) \in keep THEN <<Head(s)>> \o FilterSeq(Tail(s), keep)
    ELSE FilterSeq(Tail(s), keep)

----------------------------------------------------------------------------
(* Characters and str methods *)

UpperChars == {"E", "A", "X"}

LowerChars == {"e", "a", "o", "i", "u", "h", "k", "s", "t", "c", "n", "r",
               "m", "p", "f", "g", "z", "d", "b", "v", "x", "y"}

LowerChar(c) ==
    CASE c = "E" -> "e"
      [] c = "A" -> "a"
      [] c = "X" -> "x"
      [] OTHER -> c

isupper(c) == c \in UpperChars

islower(c) == c \in LowerChars

lower(s) == [i \in 1..Len(s) |-> LowerChar(s[i])]

Contains(s, c) == \E i \in 1..Len(s) : s[i] = c

\* str.find / str.rfind of one character, 0-based; only used when present
find(s, c) == MinOf({i \in 1..Len(s) : s[i] = c}) - 1

rfind(s, c) == MaxOf({i \in 1..Len(s) : s[i] = c}) - 1

----------------------------------------------------------------------------
(* const.CUSTOM_ORDER and TextProcessor *)

CUSTOM_ORDER == <<"e", "a", "o", "i", "u", "h", "k", "s", "t", "c", "n",
                  "r", "m", "p", "f", "g", "z", "d", "b", "v", "-", " ">>

FallbackRank == 999

AbsentPos == 999

\* ORDER_MAP.get(ch, 999)
ORDER_MAP(ch) ==
    IF \E i \in 1..Len(CUSTOM_ORDER) : CUSTOM_ORDER[i] = ch
    THEN (CHOOSE i \in 1..Len(CUSTOM_ORDER) : CUSTOM_ORDER[i] = ch) - 1
    ELSE FallbackRank

RECURSIVE StripLeadingHyphens(_)
StripLeadingHyphens(s) ==
    IF s # <<>> /\ Head(s) = "-" THEN StripLeadingHyphens(Tail(s)) ELSE s

RECURSIVE StripTrailingHyphens(_)
StripTrailingHyphens(s) ==
    IF s # <<>> /\ s[Len(s)] = "-"
    THEN StripTrailingHyphens(SubSeq(s, 1, Len(s) - 1))
    ELSE s

RECURSIVE RemoveChars(_, _)
RemoveChars(s, drop) ==
    IF s = <<>> THEN <<>>
    ELSE IF Head(s) \in drop THEN RemoveChars(Tail(s), drop)
    ELSE <<Head(s)>> \o RemoveChars(Tail(s), drop)

preprocess(text) ==
    lower(RemoveChars(StripTrailingHyphens(StripLeadingHyphens(text)),
                      {"((", "))", "'"}))

\* rule 1: the first mismatch of the zipped normalized forms decides
\* (None when the loop ends without a mismatch)
CustomOrderRule(proc_a, proc_b) ==
    LET D == {i \in 1..Min(Len(proc_a), Len(proc_b)) : proc_a[i] # proc_b[i]}
    IN  IF D = {} THEN [decided |-> FALSE, value |-> 0]
        ELSE [decided |-> TRUE,
              value |-> ORDER_MAP(proc_a[MinOf(D)]) - ORDER_MAP(proc_b[MinOf(D)])]

\* rule 2
LengthRule(proc_a, proc_b) ==
    IF Len(proc_a) # Len(proc_b)
    THEN [decided |-> TRUE, value |-> Len(proc_a) - Len(proc_b)]
    ELSE [decided |-> FALSE, value |-> 0]

\* rule 3 with the result for the side that has the apostrophe inverted
ApostropheRuleSameSign(orig_a, orig_b) ==
    IF Contains(orig_a, "'") # Contains(orig_b, "'")
    THEN [decided |-> TRUE, value |-> -1]
    ELSE [decided |-> FALSE, value |-> 0]

\* rule 3
ApostropheRule(orig_a, orig_b) ==
    IF Contains(orig_a, "'") # Contains(orig_b, "'")
    THEN [decided |-> TRUE,
          value |-> IF ~Contains(orig_a, "'") THEN -1 ELSE 1]
    ELSE [decided |-> FALSE, value |-> 0]

\* rule 4: the first zipped position of the originals where one side is
\* upper case and the other lower case
CaseRule(orig_a, orig_b) ==
    LET n == Min(Len(orig_a), Len(orig_b))
        D == {i \in 1..n :
                /\ orig_a[i] # orig_b[i]
                /\ \/ isupper(orig_a[i]) /\ islower(orig_b[i])
                   \/ isupper(orig_b[i]) /\ islower(orig_a[i])}
    IN  IF D = {} THEN [decided |-> FALSE, value |-> 0]
        ELSE [decided |-> TRUE,
              value |-> IF isupper(orig_a[MinOf(D)]) /\ islower(orig_b[MinOf(D)])
                        THEN -1 ELSE 1]

\* rule 5
SymbolRule(orig_a, orig_b) ==
    LET symbols == {"-", "(", ")"}
        a_has_symbol == \E i \in 1..Len(orig_a) : orig_a[i] \in symbols
        b_has_symbol == \E i \in 1..Len(orig_b) : orig_b[i] \in symbols
    IN  IF a_has_symbol # b_has_symbol
        THEN [decided |-> TRUE, value |-> IF ~a_has_symbol THEN -1 ELSE 1]
        ELSE [decided |-> FALSE, value |-> 0]

\* rule 6: returns as soon as the two rfind positions differ
HyphenRule(orig_a, orig_b) ==
    IF Contains(orig_a, "-") \/ Contains(orig_b, "-")
    THEN LET pos_a == IF Contains(orig_a, "-") THEN rfind(orig_a, "-") ELSE -1
             pos_b == IF Contains(orig_b, "-") THEN rfind(orig_b, "-") ELSE -1
         IN  IF pos_a # pos_b
             THEN [decided |-> TRUE,
                   value |-> (Len(orig_a) - pos_a) - (Len(orig_b) - pos_b)]
             ELSE [decided |-> FALSE, value |-> 0]
    ELSE [decided |-> FALSE, value |-> 0]

\* rule 7
ParenRule(orig_a, orig_b) ==
    IF Contains(orig_a, "((") \/ Contains(orig_b, "((")
    THEN LET open_a == IF Contains(orig_a, "((") THEN find(orig_a, "((") ELSE AbsentPos
             open_b == IF Contains(orig_b, "((") THEN find(orig_b, "((") ELSE AbsentPos
             close_a == IF Contains(orig_a, "))") THEN find(orig_a, "))") ELSE AbsentPos
             close_b == IF Contains(orig_b, "))") THEN find(orig_b, "))") ELSE AbsentPos
         IN  IF open_a # open_b THEN [decided |-> TRUE, value |-> open_a - open_b]
             ELSE IF close_a # close_b
                  THEN [decided |-> TRUE, value |-> close_a - close_b]
                  ELSE [decided |-> FALSE, value |-> 0]
    ELSE [decided |-> FALSE, value |-> 0]

compare_forms(a, b) ==
    LET proc_a == preprocess(a)
        proc_b == preprocess(b)
        r1 == CustomOrderRule(proc_a, proc_b)
        r2 == LengthRule(proc_a, proc_b)
        r3 == ApostropheRule(a, b)
        r4 == CaseRule(a, b)
        r5 == SymbolRule(a, b)
        r6 == HyphenRule(a, b)
        r7 == ParenRule(a, b)
    IN  IF r1.decided THEN r1.value
        ELSE IF r2.decided THEN r2.value
        ELSE IF r3.decided THEN r3.value
        ELSE IF r4.decided THEN r4.value
        ELSE IF r5.decided THEN r5.value
        ELSE IF r6.decided THEN r6.value
        ELSE IF r7.decided THEN r7.value
        ELSE 0

----------------------------------------------------------------------------
(* sorted(entries, key=cmp_to_key(...)): CPython's list.sort on fewer than  *)
(* 64 elements is count_run followed by binarysort; the key's __lt__ is      *)
(* "the comparator returned a negative number".  The sort is computed on    *)
(* the list of headwords and returns the permutation of input positions.    *)

ISLT(forms, i, j) == compare_forms(forms[i], forms[j]) < 0

\* length of the initial run: strictly descending if the second element is
\* less than the first, otherwise non-descending
count_run(forms) ==
    LET n == Len(forms)
    IN  IF n <= 1 THEN [n |-> n, descending |-> FALSE]
        ELSE IF ISLT(forms, 2, 1)
             THEN [n |-> MaxOf({k \in 2..n : \A i \in 2..k : ISLT(forms, i, i - 1)}),
                   descending |-> TRUE]
             ELSE [n |-> MaxOf({k \in 2..n : \A i \in 3..k : ~ISLT(forms, i, i - 1)}),
                   descending |-> FALSE]

ReverseSeq(s) == [i \in 1..Len(s) |-> s[Len(s) + 1 - i]]

\* the binary search of binarysort: where pivot goes in the sorted prefix p
RECURSIVE BinarySearch(_, _, _, _, _)
BinarySearch(forms, p, pivot, l, r) ==
    LET mid == l + ((r - l) \div 2)
        l2 == IF ISLT(forms, pivot, p[mid]) THEN l ELSE mid + 1
        r2 == IF ISLT(forms, pivot, p[mid]) THEN mid ELSE r
    IN  IF l2 < r2 THEN BinarySearch(forms, p, pivot, l2, r2) ELSE l2

\* binarysort(lo, hi, start): p[1..start-1] is sorted, insert the rest
RECURSIVE binarysort(_, _, _)
binarysort(forms, p, start) ==
    IF start > Len(p) THEN p
    ELSE LET pivot == p[start]
             at == BinarySearch(forms, p, pivot, 1, start)
             q == [i \in 1..Len(p) |->
                     IF i < at THEN p[i]
                     ELSE IF i = at THEN pivot
                     ELSE IF i <= start THEN p[i - 1]
                     ELSE p[i]]
         IN  binarysort(forms, q, start + 1)

\* the permutation list.sort produces for a list of headwords
SortPerm(forms) ==
    LET n == Len(forms)
        run == count_run(forms)
        ident == [i \in 1..n |-> i]
        p0 == IF run.descending
              THEN ReverseSeq(SubSeq(ident, 1, run.n)) \o SubSeq(ident, run.n + 1, n)
              ELSE ident
    IN  IF n < 2 THEN ident ELSE binarysort(forms, p0, run.n + 1)

\* TextProcessor.sort_entries on a list of headwords
SortForms(forms) == LET p == SortPerm(forms) IN [i \in 1..Len(forms) |-> forms[p[i]]]

\* TextProcessor.sort_entries: entries are records with a form field
sort_entries(entries) ==
    LET p == SortPerm([i \in 1..Len(entries) |-> entries[i].form])
    IN  [i \in 1..Len(entries) |-> entries[p[i]]]

----------------------------------------------------------------------------
(* Entries.  An entry dict is the record                                    *)
(*   [id, form, translations, tags, contents, variations, relations, extra] *)
(* id and form are entry["entry"]["id"] and entry["entry"]["form"]; extra   *)
(* is the set of keys of the document the program does not know.  A         *)
(* relation is [title, id, form] with id, form = relation["entry"][...].    *)

\* entry.get("id") of an entry without an id
NoneId == -1

MkEntry(id, form, translations, tags, contents, variations, relations, extra) ==
    [id |-> id, form |-> form, translations |-> translations, tags |-> tags,
     contents |-> contents, variations |-> variations, relations |-> relations,
     extra |-> extra]

\* str.split(): the maximal runs of non-blank characters
RECURSIVE SplitFrom(_, _)
SplitFrom(text, cur) ==
    IF text = <<>> THEN (IF cur = <<>> THEN <<>> ELSE <<cur>>)
    ELSE IF Head(text) = " "
         THEN (IF cur = <<>> THEN <<>> ELSE <<cur>>) \o SplitFrom(Tail(text), <<>>)
         ELSE SplitFrom(Tail(text), Append(cur, Head(text)))

split(text) == SplitFrom(text, <<>>)

\* a key collection that keeps the case of the texts
EntryKeysCaseKept(e) ==
    {e.form}
    \cup UNION {Range(e.translations[i].forms) \ {<<>>} : i \in 1..Len(e.translations)}
    \cup {e.variations[i].form :
            i \in {k \in 1..Len(e.variations) : e.variations[k].form # <<>>}}
    \cup {e.relations[i].form :
            i \in {k \in 1..Len(e.relations) : e.relations[k].form # <<>>}}
    \cup {e.tags[i] : i \in 1..Len(e.tags)}
    \cup UNION {Range(split(e.contents[i].text)) : i \in 1..Len(e.contents)}

\* the keys build_search_index collects for one entry
EntryKeys(e) ==
    {lower(e.form)}
    \cup UNION {{lower(f) : f \in Range(e.translations[i].forms) \ {<<>>}} :
                  i \in 1..Len(e.translations)}
    \cup {lower(e.variations[i].form) :
            i \in {k \in 1..Len(e.variations) : e.variations[k].form # <<>>}}
    \cup {lower(e.relations[i].form) :
            i \in {k \in 1..Len(e.relations) : e.relations[k].form # <<>>}}
    \cup {lower(e.tags[i]) : i \in 1..Len(e.tags)}
    \cup UNION {{lower(w) : w \in Range(split(e.contents[i].text))} :
                  i \in 1..Len(e.contents)}

\* "if not word_id or not form: continue"
Indexed(e) == e.id # NoneId /\ e.id # 0 /\ e.form # <<>>

\* an index builder that overwrites the id set of a key instead of adding to it
build_search_index_overwrite(hp, ws) ==
    LET valid == {i \in 1..Len(ws) : Indexed(hp[ws[i]])}
        keys == UNION {EntryKeys(hp[ws[i]]) : i \in valid}
        ids == {hp[ws[i]].id : i \in valid}
    IN  [index |-> [k \in keys |->
                      {hp[ws[MaxOf({j \in valid : k \in EntryKeys(hp[ws[j]])})]].id}],
         map |-> [d \in ids |-> ws[MaxOf({i \in valid : hp[ws[i]].id = d})]]]

\* DictionaryLoader.build_search_index: index maps a key to the set of ids,
\* id_map maps an id to the (last) entry dict that has it
build_search_index(hp, ws) ==
    LET valid == {i \in 1..Len(ws) : Indexed(hp[ws[i]])}
        keys == UNION {EntryKeys(hp[ws[i]]) : i \in valid}
        ids == {hp[ws[i]].id : i \in valid}
    IN  [index |-> [k \in keys |-> {hp[ws[i]].id : i \in {j \in valid : k \in EntryKeys(hp[ws[j]])}}],
         map |-> [d \in ids |-> ws[MaxOf({i \in valid : hp[ws[i]].id = d})]]]

----------------------------------------------------------------------------
(* SearchWorker *)

startswith(f, k) == Len(k) <= Len(f) /\ SubSeq(f, 1, Len(k)) = k

endswith(f, k) == Len(k) <= Len(f) /\ SubSeq(f, Len(f) - Len(k) + 1, Len(f)) = k

\* k in text
IsSubstring(k, text) ==
    \E i \in 0..(Len(text) - Len(k)) : SubSeq(text, i + 1, i + Len(k)) = k

\* " ".join(forms)
RECURSIVE join(_)
join(forms) ==
    IF forms = <<>> THEN <<>>
    ELSE IF Len(forms) = 1 THEN forms[1]
    ELSE forms[1] \o <<" ">> \o join(Tail(forms))

\* a matcher whose partial mode accepts a text that holds any one sub-term
_match_any_term(forms, keyword, mode) ==
    CASE mode = "partial" ->
            \E k \in Range(split(keyword)) : IsSubstring(k, join(forms))
      [] mode = "prefix" -> \E i \in 1..Len(forms) : startswith(forms[i], keyword)
      [] mode = "suffix" -> \E i \in 1..Len(forms) : endswith(forms[i], keyword)
      [] mode = "exact" -> \E i \in 1..Len(forms) : forms[i] = keyword
      [] OTHER -> FALSE

\* a matcher whose exact mode accepts a form that only starts with the keyword
_match_exact_as_prefix(forms, keyword, mode) ==
    CASE mode = "partial" ->
            \A k \in Range(split(keyword)) : IsSubstring(k, join(forms))
      [] mode = "prefix" -> \E i \in 1..Len(forms) : startswith(forms[i], keyword)
      [] mode = "suffix" -> \E i \in 1..Len(forms) : endswith(forms[i], keyword)
      [] mode = "exact" -> \E i \in 1..Len(forms) : startswith(forms[i], keyword)
      [] OTHER -> FALSE

_match(forms, keyword, mode) ==
    CASE mode = "partial" ->
            \A k \in Range(split(keyword)) : IsSubstring(k, join(forms))
      [] mode = "prefix" -> \E i \in 1..Len(forms) : startswith(forms[i], keyword)
      [] mode = "suffix" -> \E i \in 1..Len(forms) : endswith(forms[i], keyword)
      [] mode = "exact" -> \E i \in 1..Len(forms) : forms[i] = keyword
      [] OTHER -> FALSE

RECURSIVE Flatten(_)
Flatten(ss) == IF ss = <<>> THEN <<>> ELSE Head(ss) \o Flatten(Tail(ss))

\* the candidate list of one entry: headword, then every non-empty translation form
CandidateForms(e) ==
    <<lower(e.form)>> \o
    Flatten([i \in 1..Len(e.translations) |->
                LET fs == e.translations[i].forms
                    nonempty == FilterSeq(fs, Range(fs) \ {<<>>})
                IN  [j \in 1..Len(nonempty) |-> lower(nonempty[j])]])

_search_headword_translation(hp, map, keyword, mode) ==
    {hp[map[d]].id : d \in {x \in DOMAIN map : _match(CandidateForms(hp[map[x]]), keyword, mode)}}

\* a full-text search that keeps the ids of one matching key only
_search_fulltext_one_key(index, keyword, mode) ==
    LET matching == {x \in DOMAIN index : _match(<<x>>, keyword, mode)}
    IN  IF matching = {} THEN {} ELSE index[CHOOSE k \in matching : TRUE]

_search_fulltext(index, keyword, mode) ==
    UNION {index[k] : k \in {x \in DOMAIN index : _match(<<x>>, keyword, mode)}}

\* iteration order of a set of small ints: ascending
RECURSIVE Ascending(_)
Ascending(S) ==
    IF S = {} THEN <<>> ELSE <<MinOf(S)>> \o Ascending(S \ {MinOf(S)})

\* "[self.id_map[i] for i in results if i in self.id_map]" then sort_entries;
\* the result is the list of references in sorted order
ResolveAndSort(hp, map, ids) ==
    LET found == Ascending(ids \cap DOMAIN map)
        final_results == [i \in 1..Len(found) |->
                             [form |-> hp[map[found[i]]].form, ref |-> map[found[i]]]]
        sorted == sort_entries(final_results)
    IN  [i \in 1..Len(sorted) |-> sorted[i].ref]

\* SearchWorker.run_search as one call on one (index, id_map) pair: what it
\* emits, and the set of ids it matched
run_search(hp, index, map, job_id, mode, scope, text) ==
    LET keyword == lower(text)
        results == IF scope = "headword"
                   THEN _search_headword_translation(hp, map, keyword, mode)
                   ELSE _search_fulltext(index, keyword, mode)
    IN  [job_id |-> job_id, matched |-> results,
         final_results |-> ResolveAndSort(hp, map, results)]

----------------------------------------------------------------------------
(* EntryEditorDialog *)

\* returned by _generate_unique_id when no entry has an id
SentinelId == 2147483647

\* RelationWidget.VALID_RELATIONS
VALID_RELATIONS == {"synonym", "antonym", "hypernym", "hyponym", "related",
                    "reference", "abbreviation", "agreement"}

\* reciprocal_map.get(relation_type, "related")
reciprocal_map(relation_type) ==
    CASE relation_type = "hypernym" -> "hyponym"
      [] relation_type = "hyponym" -> "hypernym"
      [] relation_type \in VALID_RELATIONS \ {"hypernym", "hyponym"} -> relation_type
      [] OTHER -> "related"

\* an allocator that counts the entries instead of taking the largest id
_generate_unique_id_count(hp, ws) ==
    LET existing_ids == {hp[ws[i]].id : i \in 1..Len(ws)} \ {NoneId}
    IN  IF existing_ids # {} THEN Cardinality(existing_ids) + 1 ELSE SentinelId

_generate_unique_id(hp, ws) ==
    LET existing_ids == {hp[ws[i]].id : i \in 1..Len(ws)} \ {NoneId}
    IN  IF existing_ids # {} THEN MaxOf(existing_ids) + 1 ELSE SentinelId

\* str.strip()
RECURSIVE StripLeft(_)
StripLeft(s) == IF s # <<>> /\ Head(s) = " " THEN StripLeft(Tail(s)) ELSE s

RECURSIVE StripRight(_)
StripRight(s) ==
    IF s # <<>> /\ s[Len(s)] = " " THEN StripRight(SubSeq(s, 1, Len(s) - 1)) ELSE s

strip(s) == StripRight(StripLeft(s))

\* RelationWidget.get_data: None ("none") when no target is selected
get_data(widget) ==
    IF widget.id = NoneId \/ widget.id = 0
    THEN [none |-> TRUE]
    ELSE [none |-> FALSE, title |-> widget.title, id |-> widget.id, form |-> widget.form]

\* the relation rows _load_existing_data creates from the edited entry
LoadedWidgets(hp, map, e) ==
    [i \in 1..Len(e.relations) |->
        [title |-> e.relations[i].title,
         id |-> e.relations[i].id,
         form |-> IF e.relations[i].form = <<>> /\ e.relations[i].id \in DOMAIN map
                  THEN hp[map[e.relations[i].id]].form
                  ELSE e.relations[i].form]]

\* keeps the first (title, id) of every pair, in order
RECURSIVE DedupRelations(_, _)
DedupRelations(relations, seen) ==
    IF relations = <<>> THEN <<>>
    ELSE LET rel == Head(relations)
             key == <<rel.title, rel.id>>
         IN  IF key \in seen THEN DedupRelations(Tail(relations), seen)
             ELSE <<rel>> \o DedupRelations(Tail(relations), seen \cup {key})

RECURSIVE SelectedRelations(_)
SelectedRelations(widgets) ==
    IF widgets = <<>> THEN <<>>
    ELSE LET data == get_data(Head(widgets))
         IN  IF data.none THEN SelectedRelations(Tail(widgets))
             ELSE <<[title |-> data.title, id |-> data.id, form |-> data.form]>>
                  \o SelectedRelations(Tail(widgets))

RECURSIVE NonEmptyTranslations(_)
NonEmptyTranslations(ts) ==
    IF ts = <<>> THEN <<>>
    ELSE IF Head(ts).forms # <<>> THEN <<Head(ts)>> \o NonEmptyTranslations(Tail(ts))
    ELSE NonEmptyTranslations(Tail(ts))

\* EntryEditorDialog.get_entry_data: input is what the widgets hold
get_entry_data(entry_id, input, widgets) ==
    LET usage_text == strip(input.usage)
        etymology_text == strip(input.etymology)
        contents ==
            (IF usage_text # <<>> THEN <<[title |-> "usage", text |-> usage_text]>> ELSE <<>>)
            \o (IF etymology_text # <<>>
                THEN <<[title |-> "etymology", text |-> etymology_text]>> ELSE <<>>)
    IN  MkEntry(entry_id, strip(input.form), NonEmptyTranslations(input.translations),
                <<>>, contents, <<>>,
                DedupRelations(SelectedRelations(widgets), {}), {})

\* the duplicate check that never finds a duplicate
already_exists_never(relations, current_entry_id, reciprocal_type) == FALSE

\* the duplicate check of apply_reciprocal_relations
already_exists(relations, current_entry_id, reciprocal_type) ==
    \E i \in 1..Len(relations) :
        relations[i].id = current_entry_id /\ relations[i].title = reciprocal_type

\* a loop that ends at the first row whose target is not in the dictionary
RECURSIVE apply_reciprocal_relations_stop(_, _, _, _, _)
apply_reciprocal_relations_stop(hp, ws, current_entry_id, current_entry_form, widgets) ==
    IF widgets = <<>> THEN hp
    ELSE LET data == get_data(Head(widgets))
             found == IF data.none THEN {}
                      ELSE {i \in 1..Len(ws) : hp[ws[i]].id = data.id}
         IN  IF data.none
             THEN apply_reciprocal_relations_stop(hp, ws, current_entry_id,
                                                  current_entry_form, Tail(widgets))
             ELSE IF found = {} THEN hp
             ELSE LET target_entry == ws[MinOf(found)]
                      reciprocal_type == reciprocal_map(data.title)
                      reciprocal_relation == [title |-> reciprocal_type,
                                              id |-> current_entry_id,
                                              form |-> current_entry_form]
                      hp2 == IF already_exists(hp[target_entry].relations,
                                               current_entry_id, reciprocal_type)
                             THEN hp
                             ELSE [hp EXCEPT ![target_entry].relations =
                                                Append(@, reciprocal_relation)]
                  IN  apply_reciprocal_relations_stop(hp2, ws, current_entry_id,
                                                      current_entry_form, Tail(widgets))

\* EntryEditorDialog.apply_reciprocal_relations: the heap after the loop
RECURSIVE apply_reciprocal_relations(_, _, _, _, _)
apply_reciprocal_relations(hp, ws, current_entry_id, current_entry_form, widgets) ==
    IF widgets = <<>> THEN hp
    ELSE LET data == get_data(Head(widgets))
             found == IF data.none THEN {}
                      ELSE {i \in 1..Len(ws) : hp[ws[i]].id = data.id}
         IN  IF found = {}
             THEN apply_reciprocal_relations(hp, ws, current_entry_id,
                                             current_entry_form, Tail(widgets))
             ELSE LET target_entry == ws[MinOf(found)]
                      reciprocal_type == reciprocal_map(data.title)
                      reciprocal_relation == [title |-> reciprocal_type,
                                              id |-> current_entry_id,
                                              form |-> current_entry_form]
                      hp2 == IF already_exists(hp[target_entry].relations,
                                               current_entry_id, reciprocal_type)
                             THEN hp
                             ELSE [hp EXCEPT ![target_entry].relations =
                                                Append(@, reciprocal_relation)]
                  IN  apply_reciprocal_relations(hp2, ws, current_entry_id,
                                                 current_entry_form, Tail(widgets))

----------------------------------------------------------------------------
(* DictionaryApp and the worker thread.                                     *)
(*                                                                          *)
(* The GUI thread runs one handler at a time.  A handler that commits a     *)
(* mutation is three steps, because the worker thread runs between them:    *)
(* the commit (mutate the dictionary, rebuild, assign worker.index), the    *)
(* assignment of worker.id_map, and, after the modal message box during     *)
(* which queued finished signals are delivered, the refresh of the results. *)
(* The editor is window-modal and the delete confirmation is modal, and     *)
(* nothing the commit reads can change while they are open, so opening and  *)
(* accepting them is one step.                                              *)

\* most search jobs submitted
MaxJobs == 3

\* most add, edit and delete commits
MaxMutations == 2

SearchModes == {"partial"}

SearchScopes == {"headword", "fulltext"}

\* what the user types into the search box
SearchTexts == {<<>>, <<"e">>}

\* what the user enters into the editor's text fields
EditorInputs ==
    {[form |-> <<"a">>, usage |-> <<>>, etymology |-> <<>>,
      translations |-> <<[title |-> "noun", forms |-> <<<<"e">>>>]>>],
     [form |-> <<"e", " ">>, usage |-> <<"u", " ", "e">>, etymology |-> <<>>,
      translations |-> <<[title |-> "noun", forms |-> <<>>]>>]}

\* the kinds the user picks or types for a new relation row
NewKinds == {"hypernym"}

\* the document loaded at start-up
InitialDocument ==
    <<MkEntry(1, <<"a">>,
              <<[title |-> "noun", forms |-> <<<<"e">>>>]>>,
              <<<<"x">>>>,
              <<[title |-> "note", text |-> <<"u">>]>>,
              <<[title |-> "plural", form |-> <<"a", "e">>]>>,
              <<[title |-> "hypernym", id |-> 2, form |-> <<"e">>]>>,
              {"pronunciation"}),
      MkEntry(2, <<"e">>, <<>>, <<>>, <<>>, <<>>,
              <<[title |-> "hyponym", id |-> 1, form |-> <<"a">>]>>, {})>>

Init ==
    /\ heap = InitialDocument
    /\ words = [i \in 1..Len(InitialDocument) |-> i]
    /\ builds = 1
    /\ search_index = [pass |-> 1, index |-> build_search_index(heap, words).index]
    /\ id_map = [pass |-> 1, map |-> build_search_index(heap, words).map]
    /\ worker_index = search_index
    /\ worker_id_map = id_map
    /\ job_counter = 0
    /\ latest_job_id = 0
    /\ search_text = <<>>
    /\ search_mode \in SearchModes
    /\ search_scope \in SearchScopes
    /\ result_list = <<>>
    /\ result_entries = <<>>
    /\ mpc = "idle"
    /\ dialog = [kind |-> "none"]
    /\ queue = <<>>
    /\ wpc = "idle"
    /\ wjob = [job_id |-> 0]
    /\ wmatched = [ids |-> {}, pass |-> 0]
    /\ completions = <<>>
    /\ delivered = [job_id |-> 0, shown |-> FALSE]
    /\ args = <<>>
    /\ ret = <<>>

\* an update_results that withdraws the invocations still queued
update_results_cancelling(text) ==
    IF text = <<>> \/ DOMAIN search_index.index = {}
    THEN /\ result_list' = <<>>
         /\ UNCHANGED <<job_counter, latest_job_id, queue>>
    ELSE /\ job_counter < MaxJobs
         /\ job_counter' = job_counter + 1
         /\ latest_job_id' = job_counter + 1
         /\ queue' = <<[job_id |-> job_counter + 1, mode |-> search_mode',
                        scope |-> search_scope', text |-> text]>>
         /\ UNCHANGED result_list

\* an update_results whose invocation overtakes the ones already queued
update_results_overtaking(text) ==
    IF text = <<>> \/ DOMAIN search_index.index = {}
    THEN /\ result_list' = <<>>
         /\ UNCHANGED <<job_counter, latest_job_id, queue>>
    ELSE /\ job_counter < MaxJobs
         /\ job_counter' = job_counter + 1
         /\ latest_job_id' = job_counter + 1
         /\ queue' = <<[job_id |-> job_counter + 1, mode |-> search_mode',
                        scope |-> search_scope', text |-> text]>> \o queue
         /\ UNCHANGED result_list

\* DictionaryApp.update_results
update_results(text) ==
    IF text = <<>> \/ DOMAIN search_index.index = {}
    THEN /\ result_list' = <<>>
         /\ UNCHANGED <<job_counter, latest_job_id, queue>>
    ELSE /\ job_counter < MaxJobs
         /\ job_counter' = job_counter + 1
         /\ latest_job_id' = job_counter + 1
         /\ queue' = Append(queue, [job_id |-> job_counter + 1, mode |-> search_mode',
                                    scope |-> search_scope', text |-> text])
         /\ UNCHANGED result_list

\* search_input.textChanged
TypeText ==
    /\ mpc = "idle"
    /\ \E t \in SearchTexts \ {search_text} :
          /\ search_text' = t
          /\ UNCHANGED <<search_mode, search_scope>>
          /\ update_results(t)
    /\ UNCHANGED <<heap, words, search_index, id_map, builds, result_entries, mpc,
                   dialog, worker_index, worker_id_map, wpc, wjob, wmatched,
                   completions, delivered, args, ret>>

\* DictionaryApp._on_search_options_changed
ChangeOptions ==
    /\ mpc = "idle"
    /\ \E m \in SearchModes, sc \in SearchScopes :
          /\ <<m, sc>> # <<search_mode, search_scope>>
          /\ m = search_mode \/ sc = search_scope
          /\ search_mode' = m
          /\ search_scope' = sc
    /\ IF search_text # <<>> THEN update_results(search_text)
       ELSE UNCHANGED <<result_list, job_counter, latest_job_id, queue>>
    /\ UNCHANGED <<heap, words, search_index, id_map, builds, search_text,
                   result_entries, mpc, dialog, worker_index, worker_id_map, wpc,
                   wjob, wmatched, completions, delivered, args, ret>>

\* the rows on_search_finished adds: a repeated headword gets a number
DisplayRows(hp, results) ==
    [i \in 1..Len(results) |->
        LET form == hp[results[i]].form
            count == Cardinality({j \in 1..(i - 1) : hp[results[j]].form = form})
        IN  [form |-> form, number |-> IF count > 0 THEN count + 1 ELSE 0]]

\* on_search_finished without the job id check
on_search_finished_unchecked(c) ==
    /\ result_list' = DisplayRows(heap, c.results)
    /\ result_entries' = c.results
    /\ delivered' = [job_id |-> c.job_id, shown |-> TRUE]

\* DictionaryApp.on_search_finished
on_search_finished(c) ==
    IF c.job_id # latest_job_id
    THEN /\ UNCHANGED <<result_list, result_entries>>
         /\ delivered' = [job_id |-> c.job_id, shown |-> FALSE]
    ELSE /\ result_list' = DisplayRows(heap, c.results)
         /\ result_entries' = c.results
         /\ delivered' = [job_id |-> c.job_id, shown |-> TRUE]

\* delivery of a queued finished signal to the GUI thread
OnSearchFinished ==
    /\ mpc \in {"idle", "notify"}
    /\ completions # <<>>
    /\ on_search_finished(Head(completions))
    /\ completions' = Tail(completions)
    /\ UNCHANGED <<heap, words, search_index, id_map, builds, job_counter,
                   latest_job_id, search_text, search_mode, search_scope, mpc,
                   dialog, worker_index, worker_id_map, queue, wpc, wjob,
                   wmatched, args, ret>>

RECURSIVE SubseqAt(_, _, _)
SubseqAt(s, mask, i) ==
    IF i > Len(s) THEN <<>>
    ELSE (IF i \in mask THEN <<s[i]>> ELSE <<>>) \o SubseqAt(s, mask, i + 1)

\* the relation rows when OK is pressed: any of the loaded rows the user
\* kept, then at most one row the user added (with or without a target
\* picked in WordSelectDialog)
WidgetChoices(hp, ws, loaded) ==
    LET kept == {SubseqAt(loaded, mask, 1) : mask \in SUBSET (1..Len(loaded))}
        listed == {i \in 1..Len(ws) : hp[ws[i]].form # <<>>}
        added == {<<>>, <<[title |-> "synonym", id |-> NoneId, form |-> <<>>]>>}
                 \cup {<<[title |-> k, id |-> hp[ws[i]].id, form |-> hp[ws[i]].form]>> :
                         k \in NewKinds, i \in listed}
    IN  {k \o a : k \in kept, a \in added}

\* a commit that rebuilds the pair but leaves the worker's index as it was
RebuildNotInstalled(hp, ws) ==
    /\ heap' = hp
    /\ words' = ws
    /\ builds' = builds + 1
    /\ search_index' = [pass |-> builds + 1, index |-> build_search_index(hp, ws).index]
    /\ id_map' = [pass |-> builds + 1, map |-> build_search_index(hp, ws).map]
    /\ worker_index' = worker_index
    /\ mpc' = "install_id_map"

\* the commit's rebuild, assignment of self.search_index, self.id_map and
\* worker.index
Rebuild(hp, ws) ==
    /\ heap' = hp
    /\ words' = ws
    /\ builds' = builds + 1
    /\ search_index' = [pass |-> builds + 1, index |-> build_search_index(hp, ws).index]
    /\ id_map' = [pass |-> builds + 1, map |-> build_search_index(hp, ws).map]
    /\ worker_index' = search_index'
    /\ mpc' = "install_id_map"

CanMutate ==
    /\ mpc = "idle"
    /\ builds <= MaxMutations
    /\ job_counter < MaxJobs

\* _open_editor_new, OK, _register_entry_with_relations up to worker.index
AcceptNew ==
    /\ CanMutate
    /\ \A i \in 1..Len(words) : heap[words[i]].id < SentinelId
    /\ \E input \in EditorInputs, widgets \in WidgetChoices(heap, words, <<>>) :
          LET entry_id == _generate_unique_id(heap, words)
              entry_data == get_entry_data(entry_id, input, widgets)
              hp1 == Append(heap, entry_data)
              ws1 == Append(words, Len(hp1))
              hp2 == apply_reciprocal_relations(hp1, ws1, entry_id,
                                                strip(input.form), widgets)
          IN  /\ Rebuild(hp2, ws1)
              /\ dialog' = [kind |-> "new", entry_id |-> entry_id,
                            form |-> strip(input.form), widgets |-> widgets,
                            committed |-> Len(hp1), replaced |-> 0]
    /\ UNCHANGED <<job_counter, latest_job_id, search_text, search_mode,
                   search_scope, result_list, result_entries, worker_id_map,
                   queue, wpc, wjob, wmatched, completions, delivered, args, ret>>

\* "words[i] = entry_data; break" on the first entry with the id
ReplaceFirst(hp, ws, entry_id, ref) ==
    LET at == {i \in 1..Len(ws) : hp[ws[i]].id = entry_id}
    IN  IF at = {} THEN ws ELSE [ws EXCEPT ![MinOf(at)] = ref]

\* _open_editor_edit on a result row, OK, _update_entry_with_relations up
\* to worker.index
AcceptEdit ==
    /\ CanMutate
    /\ \E row \in 1..Min(Len(result_list), Len(result_entries)) :
          LET existing_entry == result_entries[row]
              entry_id == heap[existing_entry].id
              loaded == LoadedWidgets(heap, id_map.map, heap[existing_entry])
          IN  \E input \in EditorInputs, widgets \in WidgetChoices(heap, words, loaded) :
                LET entry_data == get_entry_data(entry_id, input, widgets)
                    at == {i \in 1..Len(words) : heap[words[i]].id = entry_id}
                    hp1 == Append(heap, entry_data)
                    ws1 == ReplaceFirst(heap, words, entry_id, Len(hp1))
                    hp2 == apply_reciprocal_relations(hp1, ws1, entry_id,
                                                      strip(input.form), widgets)
                IN  /\ Rebuild(hp2, ws1)
                    /\ dialog' = [kind |-> "edit", entry_id |-> entry_id,
                                  form |-> strip(input.form), widgets |-> widgets,
                                  committed |-> Len(hp1),
                                  replaced |-> IF at = {} THEN 0 ELSE words[MinOf(at)]]
    /\ UNCHANGED <<job_counter, latest_job_id, search_text, search_mode,
                   search_scope, result_list, result_entries, worker_id_map,
                   queue, wpc, wjob, wmatched, completions, delivered, args, ret>>

RECURSIVE WithoutId(_, _, _)
WithoutId(hp, ws, entry_id) ==
    IF ws = <<>> THEN <<>>
    ELSE IF hp[Head(ws)].id # entry_id
         THEN <<Head(ws)>> \o WithoutId(hp, Tail(ws), entry_id)
         ELSE WithoutId(hp, Tail(ws), entry_id)

\* a scrub that empties every relation list that names the deleted entry
ScrubRelationsWhole(relations, entry_id) ==
    IF \E i \in 1..Len(relations) : relations[i].id = entry_id THEN <<>> ELSE relations

\* a scrub that removes nothing
ScrubRelationsNot(relations, entry_id) == relations

\* "[rel for rel in relations if rel.entry.id != entry_id]"
RECURSIVE ScrubRelations(_, _)
ScrubRelations(relations, entry_id) ==
    IF relations = <<>> THEN <<>>
    ELSE IF Head(relations).id # entry_id
         THEN <<Head(relations)>> \o ScrubRelations(Tail(relations), entry_id)
         ELSE ScrubRelations(Tail(relations), entry_id)

\* _delete_entry on a result row, Yes, up to worker.index
DeleteEntry ==
    /\ CanMutate
    /\ \E row \in 1..Min(Len(result_list), Len(result_entries)) :
          LET entry_id == heap[result_entries[row]].id
              ws1 == WithoutId(heap, words, entry_id)
              hp1 == [r \in 1..Len(heap) |->
                        IF r \in Range(ws1)
                        THEN [heap[r] EXCEPT !.relations = ScrubRelations(@, entry_id)]
                        ELSE heap[r]]
          IN  /\ Rebuild(hp1, ws1)
              /\ dialog' = [kind |-> "delete", entry_id |-> entry_id,
                            removed |-> Len(words) - Len(ws1),
                            scrubbed |-> Cardinality({r \in Range(ws1) : hp1[r] # heap[r]})]
    /\ UNCHANGED <<job_counter, latest_job_id, search_text, search_mode,
                   search_scope, result_list, result_entries, worker_id_map,
                   queue, wpc, wjob, wmatched, completions, delivered, args, ret>>

\* "self.worker.id_map = self.id_map", then the message box opens
InstallIdMap ==
    /\ mpc = "install_id_map"
    /\ worker_id_map' = id_map
    /\ mpc' = "notify"
    /\ UNCHANGED <<heap, words, search_index, id_map, builds, job_counter,
                   latest_job_id, search_text, search_mode, search_scope,
                   result_list, result_entries, dialog, worker_index, queue, wpc,
                   wjob, wmatched, completions, delivered, args, ret>>

\* the message box is closed: the tail of the three mutation handlers
Refresh ==
    /\ mpc = "notify"
    /\ UNCHANGED <<search_mode, search_scope>>
    /\ IF search_text # <<>>
       THEN update_results(search_text) /\ UNCHANGED result_entries
       ELSE IF dialog.kind = "delete"
            THEN /\ result_list' = <<>>
                 /\ result_entries' = <<>>
                 /\ UNCHANGED <<job_counter, latest_job_id, queue>>
            ELSE UNCHANGED <<result_list, result_entries, job_counter,
                             latest_job_id, queue>>
    /\ mpc' = "idle"
    /\ dialog' = [kind |-> "none"]
    /\ UNCHANGED <<heap, words, search_index, id_map, builds, search_text,
                   worker_index, worker_id_map, wpc, wjob, wmatched,
                   completions, delivered, args, ret>>

\* run_search up to the end of the scan: the worker takes the next queued
\* invocation and matches against self.id_map or self.index
WorkerMatch ==
    /\ wpc = "idle"
    /\ queue # <<>>
    /\ LET job == Head(queue)
           keyword == lower(job.text)
       IN  /\ wjob' = job
           /\ wmatched' =
                 IF job.scope = "headword"
                 THEN [ids |-> _search_headword_translation(heap, worker_id_map.map,
                                                            keyword, job.mode),
                       pass |-> worker_id_map.pass]
                 ELSE [ids |-> _search_fulltext(worker_index.index, keyword, job.mode),
                       pass |-> worker_index.pass]
    /\ queue' = Tail(queue)
    /\ wpc' = "matched"
    /\ UNCHANGED <<heap, words, search_index, id_map, builds, job_counter,
                   latest_job_id, search_text, search_mode, search_scope,
                   result_list, result_entries, mpc, dialog, worker_index,
                   worker_id_map, completions, delivered, args, ret>>

\* the rest of run_search: resolve through self.id_map, sort, emit finished
WorkerResolve ==
    /\ wpc = "matched"
    /\ completions' = Append(completions,
                             [job_id |-> wjob.job_id,
                              results |-> ResolveAndSort(heap, worker_id_map.map,
                                                         wmatched.ids)])
    /\ wpc' = "idle"
    /\ wjob' = [job_id |-> 0]
    /\ wmatched' = [ids |-> {}, pass |-> 0]
    /\ UNCHANGED <<heap, words, search_index, id_map, builds, job_counter,
                   latest_job_id, search_text, search_mode, search_scope,
                   result_list, result_entries, mpc, dialog, worker_index,
                   worker_id_map, queue, delivered, args, ret>>

Next ==
    \/ TypeText
    \/ ChangeOptions
    \/ OnSearchFinished
    \/ AcceptNew
    \/ AcceptEdit
    \/ DeleteEntry
    \/ InstallIdMap
    \/ Refresh
    \/ WorkerMatch
    \/ WorkerResolve

Spec == Init /\ [][Next]_vars

\* The commits differ in what they write to the dictionary, not in their
\* steps; the delete commit stands for the three of them here.
NextPipeline ==
    \/ TypeText
    \/ ChangeOptions
    \/ OnSearchFinished
    \/ DeleteEntry
    \/ InstallIdMap
    \/ Refresh
    \/ WorkerMatch
    \/ WorkerResolve

\* WorkerResolve as a step of the worker's position: run_search, once
\* entered, returns
RunSearchReturns == wpc = "matched" /\ wpc' = "idle"

\* The worker thread's event loop takes every queued invocation and runs
\* it to its emit, the GUI thread's event loop delivers every queued
\* signal, and a commit handler runs on to its message box.
FairSpec ==
    /\ Init /\ [][NextPipeline]_vars
    /\ WF_vars(WorkerMatch)
    /\ WF_wpc(RunSearchReturns)
    /\ WF_vars(OnSearchFinished)
    /\ WF_vars(InstallIdMap)

----------------------------------------------------------------------------
(* Specifications that exercise the collator on bounded inputs *)

AppBlank ==
    /\ heap = <<>>
    /\ words = <<>>
    /\ search_index = [pass |-> 0, index |-> <<>>]
    /\ id_map = [pass |-> 0, map |-> <<>>]
    /\ builds = 0
    /\ job_counter = 0
    /\ latest_job_id = 0
    /\ search_text = <<>>
    /\ search_mode = "partial"
    /\ search_scope = "headword"
    /\ result_list = <<>>
    /\ result_entries = <<>>
    /\ mpc = "idle"
    /\ dialog = [kind |-> "none"]
    /\ worker_index = [pass |-> 0, index |-> <<>>]
    /\ worker_id_map = [pass |-> 0, map |-> <<>>]
    /\ queue = <<>>
    /\ wpc = "idle"
    /\ wjob = [job_id |-> 0]
    /\ wmatched = [ids |-> {}, pass |-> 0]
    /\ completions = <<>>
    /\ delivered = [job_id |-> 0, shown |-> FALSE]

\* longest headword of the pair specification
MaxFormLen == 2

PairChars == {"e", "E", "x", "y", "-", "'", "(", "((", "))"}

PairStrs == StrsOver(PairChars, MaxFormLen)

InitPair ==
    /\ AppBlank
    /\ args \in [a : PairStrs, b : PairStrs]
    /\ ret = [done |-> FALSE]

ComparePair ==
    /\ ~ret.done
    /\ ret' = [done |-> TRUE,
               ab |-> compare_forms(args.a, args.b),
               ba |-> compare_forms(args.b, args.a),
               aa |-> compare_forms(args.a, args.a)]
    /\ UNCHANGED <<appVars, args>>

SpecPair == InitPair /\ [][ComparePair]_vars

\* longest headword of the triple specification
MaxTripleLen == 2

TripleChars == {"e", "E", "'", "x", "y"}

TripleStrs == StrsOver(TripleChars, MaxTripleLen)

InitTriple ==
    /\ AppBlank
    /\ args \in [a : TripleStrs, b : TripleStrs, c : TripleStrs]
    /\ ret = [done |-> FALSE]

CompareTriple ==
    /\ ~ret.done
    /\ ret' = [done |-> TRUE,
               ab |-> compare_forms(args.a, args.b),
               bc |-> compare_forms(args.b, args.c),
               ac |-> compare_forms(args.a, args.c)]
    /\ UNCHANGED <<appVars, args>>

SpecTriple == InitTriple /\ [][CompareTriple]_vars

\* longest list and longest headword of the sort specification
MaxSortLen == 4

MaxSortFormLen == 2

SortChars == {"e", "x", "y"}

SortStrs == StrsOver(SortChars, MaxSortFormLen)

\* entry i of the input list is the record [form, id |-> i]
InitSort ==
    /\ AppBlank
    /\ \E fs \in SeqsOver(SortStrs, MaxSortLen) :
          args = [entries |-> [i \in 1..Len(fs) |-> [form |-> fs[i], id |-> i]]]
    /\ ret = [done |-> FALSE]

SortOnce ==
    /\ ~ret.done
    /\ ret' = [done |-> TRUE,
               once |-> sort_entries(args.entries),
               twice |-> sort_entries(sort_entries(args.entries))]
    /\ UNCHANGED <<appVars, args>>

SpecSort == InitSort /\ [][SortOnce]_vars

\* most entries of a dictionary of the query specification
MaxQueryEntries == 2

QueryIds == {NoneId, 0, 1, 2}

QueryForms == {<<>>, <<"a", "x">>, <<"A", "x", "e">>}

\* an entry with a headword only, or with a translation (one form of it
\* empty), a tag and a content as well
QueryEntries ==
    {MkEntry(id, form, <<>>, <<>>, <<>>, <<>>, <<>>, {}) :
        id \in QueryIds, form \in QueryForms}
    \cup {MkEntry(id, form, <<[title |-> "noun", forms |-> <<<<"E">>, <<>>>>]>>,
                  <<<<"A", "x">>>>, <<[title |-> "note", text |-> <<"x", " ", "e">>]>>,
                  <<>>, <<>>, {}) :
            id \in QueryIds, form \in QueryForms}

QueryTexts == {<<"a", "x">>, <<"A", "X">>, <<"x", " ", "e">>, <<"e">>, <<" ">>}

QueryModes == {"partial", "prefix", "suffix", "exact"}

QueryScopes == {"headword", "fulltext"}

InitQuery ==
    /\ AppBlank
    /\ args \in [entries : SeqsOver(QueryEntries, MaxQueryEntries), job_id : {1},
                 mode : QueryModes, scope : QueryScopes, text : QueryTexts]
    /\ ret = [done |-> FALSE]

\* build_search_index on the dictionary, then run_search on the pair it built
RunQuery ==
    /\ ~ret.done
    /\ LET ws == [i \in 1..Len(args.entries) |-> i]
           built == build_search_index(args.entries, ws)
       IN  ret' = [done |-> TRUE,
                   built |-> built,
                   out |-> run_search(args.entries, built.index, built.map,
                                      args.job_id, args.mode, args.scope, args.text)]
    /\ UNCHANGED <<appVars, args>>

SpecQuery == InitQuery /\ [][RunQuery]_vars

\* most entries of a dictionary of the result assembly specification
MaxAssembleEntries == 3

AssembleIds == {1, 2, 3}

AssembleForms == {<<"e", "E">>, <<"-", "E", "e">>, <<"E", "e">>}

AssembleEntries ==
    {MkEntry(id, form, <<>>, <<>>, <<>>, <<>>, <<>>, {}) :
        id \in AssembleIds, form \in AssembleForms}

\* stale: the job resolves through the id-map built before the last entry of
\* the dictionary was added, as when the add commits while the job runs
InitAssemble ==
    /\ AppBlank
    /\ args \in [entries : SeqsOver(AssembleEntries, MaxAssembleEntries),
                 job_id : {1, 2}, scope : QueryScopes, stale : BOOLEAN]
    /\ ret = [done |-> FALSE]

RunAssemble ==
    /\ ~ret.done
    /\ LET n == Len(args.entries)
           built == build_search_index(args.entries, [i \in 1..n |-> i])
           before == IF n = 0 THEN built
                     ELSE build_search_index(args.entries, [i \in 1..(n - 1) |-> i])
           map == IF args.stale THEN before.map ELSE built.map
       IN  ret' = [done |-> TRUE,
                   map |-> map,
                   emitted |-> run_search(args.entries, built.index, map,
                                          args.job_id, "partial", args.scope, <<"e">>)]
    /\ UNCHANGED <<appVars, args>>

SpecAssemble == InitAssemble /\ [][RunAssemble]_vars

\* most adds and deletes of the allocation specification
MaxAllocSteps == 5

\* the ids of the entries of the document loaded: none, one without id, ...
AllocDocuments == {<<>>, <<NoneId>>, <<0>>, <<1>>, <<2, 1>>, <<1, NoneId, 3>>}

AllocEntry(id) == MkEntry(id, <<"a">>, <<>>, <<>>, <<>>, <<>>, <<>>, {})

InitAllocate ==
    /\ AppBlank
    /\ \E doc \in AllocDocuments :
          args = [entries |-> [i \in 1..Len(doc) |-> AllocEntry(doc[i])]]
    /\ ret = [steps |-> 0, op |-> "load"]

\* EntryEditorDialog.__init__ allocates the id, the commit appends the entry
AllocateAdd ==
    /\ ret.steps < MaxAllocSteps
    /\ \A i \in 1..Len(args.entries) : args.entries[i].id < SentinelId
    /\ LET ws == [i \in 1..Len(args.entries) |-> i]
           entry_id == _generate_unique_id(args.entries, ws)
       IN  /\ args' = [entries |-> Append(args.entries, AllocEntry(entry_id))]
           /\ ret' = [steps |-> ret.steps + 1, op |-> "add", entry_id |-> entry_id,
                      before |-> args.entries]
    /\ UNCHANGED appVars

\* _delete_entry on a displayed entry: the words without its id
AllocateDelete ==
    /\ ret.steps < MaxAllocSteps
    /\ \E i \in 1..Len(args.entries) :
          /\ Indexed(args.entries[i])
          /\ LET ws == [k \in 1..Len(args.entries) |-> k]
                 kept == WithoutId(args.entries, ws, args.entries[i].id)
             IN  args' = [entries |-> [k \in 1..Len(kept) |-> args.entries[kept[k]]]]
    /\ ret' = [steps |-> ret.steps + 1, op |-> "delete"]
    /\ UNCHANGED appVars

SpecAllocate == InitAllocate /\ [][AllocateAdd \/ AllocateDelete]_vars

\* most relation rows of the editor in the commit specification
MaxRelationRows == 3

\* a row has a kind and the target chosen in the word dialog, if any: the
\* entries with id 0 and 1 are in the dictionary, no entry has id 7
RelationRows ==
    {[title |-> k, id |-> d, form |-> IF d = NoneId THEN <<>> ELSE <<"a">>] :
        k \in {"hypernym", "synonym"}, d \in {NoneId, 0, 1, 7}}

InitCommit ==
    /\ AppBlank
    /\ args \in [widgets : SeqsOver(RelationRows, MaxRelationRows),
                 input : EditorInputs]
    /\ ret = [done |-> FALSE]

GetEntryData ==
    /\ ~ret.done
    /\ ret' = [done |-> TRUE, entry_data |-> get_entry_data(5, args.input, args.widgets)]
    /\ UNCHANGED <<appVars, args>>

SpecCommit == InitCommit /\ [][GetEntryData]_vars

\* most relation rows of the editor in the reciprocal specification
MaxReciprocalRows == 3

\* the kinds of the rows: two picked from the list of the relation box and
\* one typed into it ("derived" is not in VALID_RELATIONS)
ReciprocalKinds == {"hypernym", "synonym", "derived"}

\* the entries with id 1 and 2 are in the dictionary, no entry has id 7
ReciprocalRows ==
    {[title |-> k, id |-> d, form |-> IF d = NoneId THEN <<>> ELSE <<"x">>] :
        k \in ReciprocalKinds, d \in {NoneId, 1, 2, 7}}

\* the editor is accepted on a new entry (it gets id 3) or on entry 1 of
\* the loaded document
InitReciprocal ==
    /\ AppBlank
    /\ args \in [widgets : SeqsOver(ReciprocalRows, MaxReciprocalRows),
                 input : EditorInputs, kind : {"new", "edit"}]
    /\ ret = [done |-> FALSE]

\* _register_entry_with_relations / _update_entry_with_relations up to the
\* end of apply_reciprocal_relations
ApplyReciprocal ==
    /\ ~ret.done
    /\ LET hp == InitialDocument
           ws == [i \in 1..Len(hp) |-> i]
           entry_id == IF args.kind = "new" THEN _generate_unique_id(hp, ws) ELSE 1
           entry_data == get_entry_data(entry_id, args.input, args.widgets)
           hp1 == Append(hp, entry_data)
           ws1 == IF args.kind = "new" THEN Append(ws, Len(hp1))
                  ELSE ReplaceFirst(hp, ws, entry_id, Len(hp1))
           hp2 == apply_reciprocal_relations(hp1, ws1, entry_id,
                                             strip(args.input.form), args.widgets)
       IN  ret' = [done |-> TRUE, entry_id |-> entry_id, committed |-> Len(hp1),
                   before |-> hp1, words |-> ws1, after |-> hp2]
    /\ UNCHANGED <<appVars, args>>

SpecReciprocal == InitReciprocal /\ [][ApplyReciprocal]_vars

----------------------------------------------------------------------------
(* Claims *)

(* C1: a finished signal whose job_id is not latest_job_id leaves the      *)
(* result list and result_entries unchanged, and the results of a job are  *)
(* only ever shown while that job is the latest one submitted.             *)
C1_StaleDiscarded ==
    [][/\ (/\ completions # <<>>
           /\ completions' = Tail(completions)
           /\ Head(completions).job_id # latest_job_id)
          => (result_list' = result_list /\ result_entries' = result_entries)
       /\ (delivered' # delivered /\ delivered'.shown)
          => delivered'.job_id = latest_job_id]_vars

C1_Witness ==
    /\ delivered.job_id = 2
    /\ ~delivered.shown
    /\ latest_job_id = 3
    /\ result_list # <<>>

(* C2: a job resolves its matched ids through the id-map of the same build *)
(* pass whose index (or id-map) it matched against.                        *)
C2_OneSnapshotPerJob ==
    [][(wpc = "matched" /\ wpc' = "idle") => wmatched.pass = worker_id_map.pass]_vars

EntryIds(hp, ws) == {hp[ws[i]].id : i \in 1..Len(ws)}

(* C3: every relation of every entry of the dictionary targets the id of   *)
(* an entry of the dictionary.                                             *)
C3_NoDangling ==
    \A i \in 1..Len(words) : \A k \in 1..Len(heap[words[i]].relations) :
        heap[words[i]].relations[k].id \in EntryIds(heap, words)

(* C4: if A carries a relation of kind K to B then B carries a relation of *)
(* the reciprocal kind of K to A.                                          *)
C4_Reciprocal ==
    \A i, j \in 1..Len(words) : \A k \in 1..Len(heap[words[i]].relations) :
        LET rel == heap[words[i]].relations[k]
        IN  rel.id = heap[words[j]].id =>
              \E m \in 1..Len(heap[words[j]].relations) :
                  /\ heap[words[j]].relations[m].id = heap[words[i]].id
                  /\ heap[words[j]].relations[m].title = reciprocal_map(rel.title)

CountRelations(relations, title, id) ==
    Cardinality({m \in 1..Len(relations) :
                    relations[m].title = title /\ relations[m].id = id})

(* C5: after apply_reciprocal_relations the target of every relation the   *)
(* source declares carries exactly one relation (reciprocal kind, source   *)
(* id), and applying it again with the same input changes nothing.         *)
C5_ReciprocalIdempotent ==
    mpc = "install_id_map" /\ dialog.kind \in {"new", "edit"} =>
        /\ \A i \in 1..Len(dialog.widgets) : \A j \in 1..Len(words) :
              LET data == get_data(dialog.widgets[i])
              IN  ~data.none /\ heap[words[j]].id = data.id =>
                    CountRelations(heap[words[j]].relations,
                                   reciprocal_map(data.title), dialog.entry_id) = 1
        /\ apply_reciprocal_relations(heap, words, dialog.entry_id, dialog.form,
                                      dialog.widgets) = heap

C5_Witness ==
    /\ mpc = "install_id_map"
    /\ dialog.kind = "new"
    /\ \E i \in 1..Len(dialog.widgets) : \E j \in 1..Len(words) :
          /\ dialog.widgets[i].title = "hypernym"
          /\ dialog.widgets[i].id = heap[words[j]].id
          /\ CountRelations(heap[words[j]].relations, "hyponym", dialog.entry_id) = 1

(* C6: after a delete no entry has the deleted id, no relation targets it, *)
(* and the rebuilt index and id-map do not contain it.                     *)
C6_DeleteCascade ==
    dialog.kind = "delete" =>
        /\ dialog.entry_id \notin EntryIds(heap, words)
        /\ \A i \in 1..Len(words) : \A k \in 1..Len(heap[words[i]].relations) :
              heap[words[i]].relations[k].id # dialog.entry_id
        /\ \A key \in DOMAIN search_index.index :
              dialog.entry_id \notin search_index.index[key]
        /\ dialog.entry_id \notin DOMAIN id_map.map

C6_Witness ==
    /\ dialog.kind = "delete"
    /\ dialog.removed = 1
    /\ dialog.scrubbed > 0
    /\ mpc = "notify"

RECURSIVE OtherContents(_)
OtherContents(contents) ==
    IF contents = <<>> THEN <<>>
    ELSE IF Head(contents).title \notin {"usage", "etymology"}
         THEN <<Head(contents)>> \o OtherContents(Tail(contents))
         ELSE OtherContents(Tail(contents))

(* C7: the entry an edit commits has the tags, variations, other contents  *)
(* and unknown keys of the entry it replaces.                              *)
C7_HiddenFieldsPreserved ==
    dialog.kind = "edit" /\ dialog.replaced # 0 =>
        LET before == heap[dialog.replaced]
            after == heap[dialog.committed]
        IN  /\ after.tags = before.tags
            /\ after.variations = before.variations
            /\ OtherContents(after.contents) = OtherContents(before.contents)
            /\ after.extra = before.extra

(* C8: compare_forms is transitive, and so is "compares equal". *)
C8_Transitive ==
    ret.done /\ "bc" \in DOMAIN ret =>
        /\ (ret.ab < 0 /\ ret.bc < 0 => ret.ac < 0)
        /\ (ret.ab = 0 /\ ret.bc = 0 => ret.ac = 0)

(* C9: compare_forms is antisymmetric in sign and compare(a, a) = 0. *)
C9_Antisymmetric ==
    ret.done /\ "ba" \in DOMAIN ret =>
        /\ Sign(ret.ab) = -Sign(ret.ba)
        /\ ret.aa = 0

C9_Witness ==
    /\ ret.done /\ "ba" \in DOMAIN ret
    /\ args.a # args.b
    /\ Contains(args.a, "'") /\ ~Contains(args.b, "'")
    /\ preprocess(args.a) = preprocess(args.b)
    /\ ret.ab > 0 /\ ret.ba < 0

PositionOf(s, x) == CHOOSE i \in 1..Len(s) : s[i] = x

(* C10: sort_entries is idempotent, and entries whose headwords compare   *)
(* equal keep their relative input order.                                 *)
C10_IdempotentStable ==
    ret.done /\ "once" \in DOMAIN ret =>
        /\ ret.twice = ret.once
        /\ \A i, j \in 1..Len(args.entries) :
              i < j /\ compare_forms(args.entries[i].form, args.entries[j].form) = 0
              => PositionOf(ret.once, args.entries[i]) < PositionOf(ret.once, args.entries[j])

(* C11: build_search_index registers every entry that has an id and a      *)
(* non-empty form (its lowercased headword is a key whose set holds the    *)
(* id, and the id is a key of the id-map), and an entry with no id or an   *)
(* empty form is no record of the id-map and, unless another entry shares  *)
(* its id, its id is in no value set.                                      *)
C11_IndexRegisters ==
    ret.done /\ "built" \in DOMAIN ret =>
        \A i \in 1..Len(args.entries) :
            LET e == args.entries[i]
                index == ret.built.index
                map == ret.built.map
            IN  /\ (e.id # NoneId /\ e.form # <<>>) =>
                      /\ lower(e.form) \in DOMAIN index
                      /\ e.id \in index[lower(e.form)]
                      /\ e.id \in DOMAIN map
                /\ (e.id = NoneId \/ e.form = <<>>) =>
                      /\ \A d \in DOMAIN map : map[d] # i
                      /\ (\A j \in 1..Len(args.entries) :
                              j # i /\ args.entries[j].id = e.id
                              => args.entries[j].form = <<>>)
                         => /\ e.id \notin DOMAIN map
                            /\ \A k \in DOMAIN index : e.id \notin index[k]

(* C12: in the pair one build returns, every id of an index value set is a *)
(* key of the id-map, every key of the id-map is the id of the entry it    *)
(* maps to, an entry of the dictionary, and the value set of a key holds   *)
(* the ids of all the registered entries that produce the key.             *)
C12_PairConsistent ==
    ret.done /\ "built" \in DOMAIN ret =>
        LET index == ret.built.index
            map == ret.built.map
            contributing(k) == {i \in 1..Len(args.entries) :
                                   /\ Indexed(args.entries[i])
                                   /\ k \in EntryKeys(args.entries[i])}
        IN  /\ \A k \in DOMAIN index : index[k] \subseteq DOMAIN map
            /\ \A d \in DOMAIN map :
                  map[d] \in 1..Len(args.entries) /\ args.entries[map[d]].id = d
            /\ \A k \in DOMAIN index :
                  index[k] = {args.entries[i].id : i \in contributing(k)}

C12_Witness ==
    /\ ret.done /\ "built" \in DOMAIN ret
    /\ Len(args.entries) = 2
    /\ args.entries[1].id = 1 /\ args.entries[2].id = 2
    /\ args.entries[1].form = <<"a", "x">>
    /\ <<"a", "x">> \in DOMAIN ret.built.index
    /\ ret.built.index[<<"a", "x">>] = {1, 2}

\* the entries the id-map of the build holds
Records(built) == {built.map[d] : d \in DOMAIN built.map}

(* C13: an exact query with scope headword-and-translation returns exactly *)
(* the ids of the indexed entries whose lowercased headword, or one of     *)
(* whose lowercased translation forms, equals the lowercased keyword.      *)
C13_ExactHeadword ==
    (/\ ret.done /\ "out" \in DOMAIN ret
     /\ args.mode = "exact" /\ args.scope = "headword") =>
        ret.out.matched =
            {args.entries[i].id :
                i \in {r \in Records(ret.built) :
                          LET e == args.entries[r]
                          IN  \/ lower(e.form) = lower(args.text)
                              \/ \E t \in 1..Len(e.translations) :
                                    \E f \in 1..Len(e.translations[t].forms) :
                                        lower(e.translations[t].forms[f]) = lower(args.text)}}

\* "ax" and "Axe" are indexed, the keyword "AX" returns only "ax"
C13_Witness ==
    /\ ret.done /\ "out" \in DOMAIN ret
    /\ args.mode = "exact" /\ args.scope = "headword"
    /\ args.text = <<"A", "X">>
    /\ Len(args.entries) = 2
    /\ args.entries[1].id = 1 /\ args.entries[1].form = <<"a", "x">>
    /\ args.entries[2].id = 2 /\ args.entries[2].form = <<"A", "x", "e">>
    /\ ret.out.matched = {1}

(* C14: a prefix query with scope full-text returns exactly the union of   *)
(* the id sets of the index keys that start with the lowercased keyword,   *)
(* and a suffix query that of the keys that end with it.                   *)
C14_PrefixSuffixFulltext ==
    (/\ ret.done /\ "out" \in DOMAIN ret
     /\ args.mode \in {"prefix", "suffix"} /\ args.scope = "fulltext") =>
        LET index == ret.built.index
            kw == lower(args.text)
            starts(k) == \E n \in 0..Len(k) : SubSeq(k, 1, n) = kw
            ends(k) == \E n \in 0..Len(k) : SubSeq(k, n + 1, Len(k)) = kw
        IN  ret.out.matched =
                UNION {index[k] : k \in {x \in DOMAIN index :
                                            IF args.mode = "prefix" THEN starts(x)
                                            ELSE ends(x)}}

\* "ax" and "Axe" are indexed, the prefix keyword "ax" returns both
C14_Witness ==
    /\ ret.done /\ "out" \in DOMAIN ret
    /\ args.mode = "prefix" /\ args.scope = "fulltext"
    /\ args.text = <<"a", "x">>
    /\ Len(args.entries) = 2
    /\ args.entries[1].id = 1 /\ args.entries[1].form = <<"a", "x">>
    /\ args.entries[2].id = 2 /\ args.entries[2].form = <<"A", "x", "e">>
    /\ ret.out.matched = {1, 2}

\* the sub-terms of a keyword: its maximal runs of non-blank characters
SubTerms(text) ==
    {SubSeq(text, i, j) : i \in 1..Len(text), j \in 1..Len(text)} \ {<<>>}

Terms(text) ==
    {t \in SubTerms(text) :
        /\ \A n \in 1..Len(t) : t[n] # " "
        /\ \E i \in 1..Len(text) :
              /\ SubSeq(text, i, i + Len(t) - 1) = t
              /\ (i = 1 \/ text[i - 1] = " ")
              /\ (i + Len(t) - 1 = Len(text) \/ text[i + Len(t)] = " ")}

\* the lowercased headword and all the lowercased translation forms of an
\* entry, joined by single spaces
JoinedText(e) ==
    join(<<lower(e.form)>> \o
         Flatten([t \in 1..Len(e.translations) |->
                     [f \in 1..Len(e.translations[t].forms) |->
                         lower(e.translations[t].forms[f])]]))

(* C15: a partial query is conjunctive over the whitespace-separated       *)
(* sub-terms of the keyword: with scope headword-and-translation an entry  *)
(* is returned iff every sub-term is a substring of its joined text, with  *)
(* scope full-text an id is returned iff it is registered under one index  *)
(* key that contains every sub-term.                                       *)
C15_PartialConjunctive ==
    (ret.done /\ "out" \in DOMAIN ret /\ args.mode = "partial") =>
        LET terms == Terms(lower(args.text))
            index == ret.built.index
        IN  IF args.scope = "headword"
            THEN ret.out.matched =
                    {args.entries[r].id :
                        r \in {x \in Records(ret.built) :
                                  \A t \in terms :
                                      IsSubstring(t, JoinedText(args.entries[x]))}}
            ELSE ret.out.matched =
                    UNION {index[k] :
                             k \in {x \in DOMAIN index :
                                       \A t \in terms : IsSubstring(t, x)}}

\* "axe" holds both sub-terms of "x e" but not "x e" itself
C15_Witness ==
    /\ ret.done /\ "out" \in DOMAIN ret
    /\ args.mode = "partial" /\ args.scope = "headword"
    /\ args.text = <<"x", " ", "e">>
    /\ Len(args.entries) = 2
    /\ args.entries[1].id = 1 /\ args.entries[1].form = <<"A", "x", "e">>
    /\ args.entries[1].translations = <<>>
    /\ args.entries[2].id = 2 /\ args.entries[2].form = <<"a", "x">>
    /\ args.entries[2].translations = <<>>
    /\ ret.out.matched = {1}

\* (a) and (b) of the result assembly: the emitted list holds exactly the
\* id-map records of the matched ids the id-map has, each id once
AssembledFromIdMap ==
    LET out == ret.emitted.final_results
    IN  /\ Range(out) = {ret.map[d] : d \in ret.emitted.matched \cap DOMAIN ret.map}
        /\ \A i, j \in 1..Len(out) :
              i < j => args.entries[out[i]].id # args.entries[out[j]].id

(* C16: a completion carries the job id of its job, and its list holds the *)
(* id-map records of the matched ids (ids the id-map lacks are dropped),   *)
(* no id twice, in collator order: no entry is greater than a later one.   *)
C16_ResultAssembly ==
    ret.done /\ "emitted" \in DOMAIN ret =>
        LET out == ret.emitted.final_results
        IN  /\ ret.emitted.job_id = args.job_id
            /\ AssembledFromIdMap
            /\ \A i, j \in 1..Len(out) :
                  i < j => compare_forms(args.entries[out[i]].form,
                                         args.entries[out[j]].form) <= 0

(* C17: whenever a job is submitted, the worker holds the index and the    *)
(* id-map of the latest build, which are those of the dictionary as it is, *)
(* and the worker's index and id-map are never replaced by those of an     *)
(* older build: a job submitted after a commit is evaluated against a pair *)
(* no older than that commit's.                                            *)
C17_RebuiltBeforeQuery ==
    [][/\ job_counter' # job_counter =>
             /\ worker_index'.pass = builds' /\ worker_id_map'.pass = builds'
             /\ worker_index'.index = build_search_index(heap', words').index
             /\ worker_id_map'.map = build_search_index(heap', words').map
       /\ worker_index'.pass >= worker_index.pass
       /\ worker_id_map'.pass >= worker_id_map.pass]_vars

\* a commit has refreshed the results: its job is queued and the worker holds
\* the pair the commit built
C17_Witness ==
    /\ mpc = "idle"
    /\ builds = 2
    /\ queue # <<>>
    /\ queue[Len(queue)].job_id = latest_job_id
    /\ worker_index.pass = 2 /\ worker_id_map.pass = 2
    /\ Len(words) = 3

\* the ids of the jobs that are not yet delivered, oldest stage first: the
\* completions on their way to the window, the job the worker runs, the queue
Pipeline ==
    [i \in 1..Len(completions) |-> completions[i].job_id]
    \o (IF wpc = "matched" THEN <<wjob.job_id>> ELSE <<>>)
    \o [i \in 1..Len(queue) |-> queue[i].job_id]

(* C18: the jobs are run one at a time in submission order and their       *)
(* completions are delivered in that order (the ids along the pipeline     *)
(* increase and follow the last one delivered), job ids are handed out in  *)
(* increasing order, and latest_job_id is the id of the last job           *)
(* submitted.                                                              *)
C18_FifoJobs ==
    [][/\ \A i, j \in 1..Len(Pipeline') : i < j => Pipeline'[i] < Pipeline'[j]
       /\ \A i \in 1..Len(Pipeline') :
             delivered'.job_id < Pipeline'[i] /\ Pipeline'[i] <= latest_job_id'
       /\ latest_job_id' = job_counter'
       /\ job_counter' \in {job_counter, job_counter + 1}
       /\ job_counter' # job_counter =>
             queue' # <<>> /\ queue'[Len(queue')].job_id = job_counter'
       /\ (wpc = "idle" /\ wpc' = "matched") => wjob' = Head(queue)
       /\ (wpc = "matched" /\ wpc' = "idle") =>
             completions'[Len(completions')].job_id = wjob.job_id
       /\ delivered' # delivered => delivered'.job_id = Head(completions).job_id]_vars

\* three jobs at three stages
C18_Witness ==
    /\ completions # <<>>
    /\ wpc = "matched"
    /\ queue # <<>>
    /\ completions[1].job_id = 1 /\ wjob.job_id = 2 /\ queue[1].job_id = 3

\* the ids the entries of a word list have
IdsOf(entries) == {entries[i].id : i \in 1..Len(entries)} \ {NoneId}

(* C19: the id of a new entry is the largest id of the dictionary plus one *)
(* or, when no entry has an id, 2147483647; it is the id of no entry of    *)
(* the dictionary it is added to; and no two entries of the dictionary     *)
(* have the same id after any adds and deletes.                            *)
C19_FreshId ==
    "steps" \in DOMAIN ret =>
        /\ ret.op = "add" =>
              /\ ret.entry_id = IF IdsOf(ret.before) = {} THEN 2147483647
                                ELSE (CHOOSE m \in IdsOf(ret.before) :
                                         \A d \in IdsOf(ret.before) : d <= m) + 1
              /\ ret.entry_id \notin IdsOf(ret.before)
        /\ \A i, j \in 1..Len(args.entries) :
              (i # j /\ args.entries[i].id # NoneId)
              => args.entries[i].id # args.entries[j].id

\* every entry was deleted and the add that follows got the sentinel
C19_Witness ==
    /\ "steps" \in DOMAIN ret
    /\ ret.op = "add"
    /\ ret.steps = 3
    /\ ret.entry_id = SentinelId
    /\ ret.before = <<>>

\* the rows with a selected target whose (kind, target id) no earlier row has
FirstOccurrences(widgets) ==
    {i \in 1..Len(widgets) :
        /\ widgets[i].id # NoneId
        /\ \A j \in 1..(i - 1) :
              ~(widgets[j].title = widgets[i].title /\ widgets[j].id = widgets[i].id)}

(* C20: the relations get_entry_data commits have no (kind, target id)     *)
(* twice and are the first rows of each pair, in the order of the rows,    *)
(* without the rows that have no selected target.                          *)
C20_RelationsDeduplicated ==
    ret.done /\ "entry_data" \in DOMAIN ret =>
        LET out == ret.entry_data.relations
            first == FirstOccurrences(args.widgets)
            nth(k) == CHOOSE i \in first : Cardinality({j \in first : j <= i}) = k
        IN  /\ \A i, j \in 1..Len(out) :
                  i < j => ~(out[i].title = out[j].title /\ out[i].id = out[j].id)
            /\ Len(out) = Cardinality(first)
            /\ \A k \in 1..Len(out) :
                  /\ out[k].title = args.widgets[nth(k)].title
                  /\ out[k].id = args.widgets[nth(k)].id

\* the rows of the accepted editor that name a target
SelectedRows == {i \in 1..Len(args.widgets) : ~get_data(args.widgets[i]).none}

\* the selected rows whose target id no entry of the dictionary has
DanglingRows ==
    {i \in SelectedRows : args.widgets[i].id \notin EntryIds(ret.before, ret.words)}

(* C21: a relation of the source whose target id is absent from the        *)
(* dictionary adds no back-relation and changes no entry (every relation   *)
(* appended to an entry is the reciprocal of a row that targets it), the   *)
(* rows with a present target are still reciprocated, and the dangling     *)
(* relation is in the committed source entry as the row gave it.           *)
C21_DanglingTargetSkipped ==
    ret.done /\ "after" \in DOMAIN ret =>
        /\ Len(ret.after) = Len(ret.before)
        /\ \A r \in 1..Len(ret.before) :
              LET old == ret.before[r].relations
                  new == ret.after[r].relations
              IN  /\ [ret.after[r] EXCEPT !.relations = old] = ret.before[r]
                  /\ Len(new) >= Len(old)
                  /\ SubSeq(new, 1, Len(old)) = old
                  /\ \A k \in (Len(old) + 1)..Len(new) :
                        \E i \in SelectedRows \ DanglingRows :
                            /\ args.widgets[i].id = ret.before[r].id
                            /\ r \in Range(ret.words)
                            /\ new[k] = [title |-> reciprocal_map(args.widgets[i].title),
                                         id |-> ret.entry_id,
                                         form |-> strip(args.input.form)]
        /\ \A i \in SelectedRows \ DanglingRows :
              \E j \in 1..Len(ret.words) :
                  /\ ret.after[ret.words[j]].id = args.widgets[i].id
                  /\ CountRelations(ret.after[ret.words[j]].relations,
                                    reciprocal_map(args.widgets[i].title),
                                    ret.entry_id) >= 1
        /\ \A i \in DanglingRows :
              \E k \in 1..Len(ret.after[ret.committed].relations) :
                  ret.after[ret.committed].relations[k] =
                      [title |-> args.widgets[i].title, id |-> args.widgets[i].id,
                       form |-> args.widgets[i].form]

C21_Witness ==
    /\ ret.done /\ "after" \in DOMAIN ret
    /\ \E i \in DanglingRows : \E j \in SelectedRows \ DanglingRows :
          /\ i < j
          /\ ret.after # ret.before
          /\ \E k \in 1..Len(ret.after[ret.committed].relations) :
                ret.after[ret.committed].relations[k].id = args.widgets[i].id

\* what each of the rules 1-7 says about a pair on its own; rule 2 speaks
\* only when one normalized form is a prefix of the other
RuleVerdicts(a, b) ==
    LET proc_a == preprocess(a)
        proc_b == preprocess(b)
        r1 == CustomOrderRule(proc_a, proc_b)
    IN  <<r1,
          IF r1.decided THEN [decided |-> FALSE, value |-> 0]
          ELSE LengthRule(proc_a, proc_b),
          ApostropheRule(a, b), CaseRule(a, b), SymbolRule(a, b),
          HyphenRule(a, b), ParenRule(a, b)>>

\* the rules that differentiate the pair
Differentiating(a, b) ==
    {k \in 1..7 : RuleVerdicts(a, b)[k].decided /\ RuleVerdicts(a, b)[k].value # 0}

(* C22: compare_forms(a, b) has the sign of the first of the rules 1-7     *)
(* that differentiates a and b, and is 0 only when none of them does: a    *)
(* tie of rule 1 at the first mismatch or of rule 6 falls through to the   *)
(* later rules.                                                            *)
C22_FirstDifferentiatingRuleDecides ==
    ret.done /\ "ba" \in DOMAIN ret =>
        LET D == Differentiating(args.a, args.b)
        IN  IF D = {} THEN ret.ab = 0
            ELSE Sign(ret.ab) = Sign(RuleVerdicts(args.a, args.b)[MinOf(D)].value)

\* the marker symbols of rule 5: hyphen and the parentheses, full-width included
MarkerSymbols == {"-", "(", ")", "((", "))"}

HasMarker(s) == \E i \in 1..Len(s) : s[i] \in MarkerSymbols

(* C23: when rules 1-4 do not differentiate two headwords and exactly one  *)
(* of the originals contains a hyphen or a parenthesis (ASCII or           *)
(* full-width), compare_forms orders the one without it first.             *)
C23_MarkerFreeFirst ==
    (/\ ret.done /\ "ba" \in DOMAIN ret
     /\ Differentiating(args.a, args.b) \cap (1..4) = {}
     /\ HasMarker(args.a) # HasMarker(args.b))
    => IF HasMarker(args.a) THEN ret.ab > 0 ELSE ret.ab < 0

(* C24: while a search job is queued or running, no step changes an entry  *)
(* record that the id-map installed in the worker references.              *)
C24_NoInPlaceMutation ==
    [][(queue # <<>> \/ wpc = "matched") =>
          \A d \in DOMAIN worker_id_map.map :
              heap'[worker_id_map.map[d]] = heap[worker_id_map.map[d]]]_vars

\* job j is queued, running or finished and not yet delivered
Pending(j) == \E i \in 1..Len(Pipeline) : Pipeline[i] = j

(* C25: a queued job leaves the queue only by being dispatched, a          *)
(* dispatched job ends only by emitting one finished signal with its own   *)
(* job id, every submitted job's signal is eventually delivered, and while *)
(* a job stays the latest one its results are eventually displayed.        *)
C25_NoCancellation ==
    /\ [][/\ queue' # queue =>
                \/ /\ queue # <<>> /\ queue' = Tail(queue)
                   /\ wpc' = "matched" /\ wjob' = Head(queue)
                \/ /\ Len(queue') = Len(queue) + 1
                   /\ SubSeq(queue', 1, Len(queue)) = queue
                   /\ queue'[Len(queue')].job_id = job_counter'
          /\ wpc = "matched" =>
                \/ wpc' = "matched" /\ wjob' = wjob
                \/ /\ wpc' = "idle"
                   /\ Len(completions') = Len(completions) + 1
                   /\ SubSeq(completions', 1, Len(completions)) = completions
                   /\ completions'[Len(completions')].job_id = wjob.job_id
          /\ Len(completions') > Len(completions) => wpc = "matched"]_vars
    /\ \A j \in 1..MaxJobs : Pending(j) ~> (delivered.job_id = j)
    /\ \A j \in 1..MaxJobs :
          (Pending(j) /\ latest_job_id = j) ~>
              ((delivered.job_id = j /\ delivered.shown) \/ latest_job_id # j)

C25_Witness ==
    /\ delivered.job_id = 1
    /\ ~delivered.shown
    /\ wpc = "matched"
    /\ wjob.job_id = 2
    /\ queue # <<>>

(* C26: a delete of the entry with id B removes from the words the entries *)
(* with id B and from every remaining entry the relations that target B;   *)
(* every other relation keeps its kind, target, cached form and place,     *)
(* every other field of every entry is unchanged, and no relation is added.*)
C26_DeleteOneHop ==
    [][(mpc = "idle" /\ mpc' = "install_id_map" /\ dialog'.kind = "delete") =>
          LET B == dialog'.entry_id
          IN  /\ words' = FilterSeq(words, {r \in Range(words) : heap[r].id # B})
              /\ Len(heap') = Len(heap)
              /\ \A r \in 1..Len(heap) :
                    IF r \in Range(words')
                    THEN heap'[r] =
                            [heap[r] EXCEPT !.relations =
                                FilterSeq(@, {rel \in Range(@) : rel.id # B})]
                    ELSE heap'[r] = heap[r]]_vars

C26_Witness ==
    /\ mpc = "install_id_map"
    /\ dialog.kind = "delete"
    /\ dialog.removed = 1
    /\ dialog.scrubbed > 0
    /\ \E i \in 1..Len(words) :
          /\ heap[words[i]].id # dialog.entry_id
          /\ Len(heap[words[i]].relations) > 0
          /\ heap[words[i]].extra # {}

(* C27: while the search text is empty and no new job is submitted, an     *)
(* empty result list stays empty.                                          *)
C27_EmptiedStaysEmpty ==
    [][(search_text = <<>> /\ result_list = <<>> /\ job_counter' = job_counter)
          => result_list' = <<>>]_vars

\* the ids the query of the state matches with scope headword-and-translation
HeadwordIds ==
    IF args.scope = "headword" THEN ret.out.matched
    ELSE run_search(args.entries, ret.built.index, ret.built.map, args.job_id,
                    args.mode, "headword", args.text).matched

\* the ids it matches with scope full-text
FulltextIds ==
    IF args.scope = "fulltext" THEN ret.out.matched
    ELSE run_search(args.entries, ret.built.index, ret.built.map, args.job_id,
                    args.mode, "fulltext", args.text).matched

(* C28 as stated: on one pair, for every mode and keyword, the ids matched *)
(* with scope headword-and-translation are among those matched with scope  *)
(* full-text.                                                              *)
C28_ScopeWidening ==
    ret.done /\ "built" \in DOMAIN ret => HeadwordIds \subseteq FulltextIds

(* C28: on one pair, the ids matched with scope headword-and-translation   *)
(* are among those matched with scope full-text for the prefix, suffix and *)
(* exact modes, and for the partial mode when the keyword has at most one  *)
(* sub-term.                                                               *)
C28_ScopeWideningOneTerm ==
    (/\ ret.done /\ "built" \in DOMAIN ret
     /\ args.mode # "partial" \/ Len(split(lower(args.text))) <= 1)
    => HeadwordIds \subseteq FulltextIds

C28_Witness ==
    /\ ret.done /\ "built" \in DOMAIN ret
    /\ args.mode = "partial"
    /\ Len(split(lower(args.text))) = 1
    /\ \E d \in HeadwordIds :
          ~IsSubstring(lower(args.text), lower(args.entries[ret.built.map[d]].form))

(* C29: the relation a row declares is the reciprocal of the back-relation *)
(* that apply_reciprocal_relations leaves on its target: the target        *)
(* carries a relation to the source whose reciprocal kind is the kind of   *)
(* the row, whether the kind was picked from the list or typed.            *)
C29_ReciprocalInvolution ==
    ret.done /\ "after" \in DOMAIN ret =>
        \A i \in SelectedRows \ DanglingRows :
            \E j \in 1..Len(ret.words) :
                LET target == ret.after[ret.words[j]]
                IN  /\ target.id = args.widgets[i].id
                    /\ \E k \in 1..Len(target.relations) :
                          /\ target.relations[k].id = ret.entry_id
                          /\ reciprocal_map(target.relations[k].title) = args.widgets[i].title

(* C30: an entry with the id 0 and a non-empty form is registered: 0 is a  *)
(* key of the id-map, the lowercased headword is a key of the index whose  *)
(* set holds 0, and the exact query for the headword finds the entry.      *)
C30_ZeroIdRegistered ==
    ret.done /\ "built" \in DOMAIN ret =>
        \A i \in 1..Len(args.entries) :
            LET e == args.entries[i]
            IN  (e.id = 0 /\ e.form # <<>>) =>
                  /\ 0 \in DOMAIN ret.built.map
                  /\ lower(e.form) \in DOMAIN ret.built.index
                  /\ 0 \in ret.built.index[lower(e.form)]
                  /\ (args.mode = "exact" /\ lower(args.text) = lower(e.form))
                     => 0 \in ret.out.matched

====
